---- MODULE Spec2Model ----
(***************************************************************************)
(* State-machine model of the R-Tree spatial index (src/rtree.h,           *)
(* src/rtree.cpp): the Rectangle geometry, the RTreeNode arena, and the    *)
(* public operations of RTree (constructor, insert, search,                *)
(* search_with_population, empty).                                         *)
(*                                                                         *)
(* Heap objects are modelled as an arena: `nodes` is the sequence of all   *)
(* RTreeNode objects ever allocated, a node pointer is an index into it,   *)
(* and 0 is the null pointer.  Coordinates are integers (exact in double). *)
(* size_t is modelled at the reduced width SizeBits: arithmetic on it      *)
(* wraps modulo 2^SizeBits exactly as the program's wraps modulo 2^64.     *)
(***************************************************************************)
EXTENDS Integers, Sequences, FiniteSets, Bags, TLC

VARIABLES
    nodes,          \* arena of RTreeNode objects, indexed by node pointer
    root_,          \* RTree::root_ : pointer to the root node
    min_entries_,   \* RTree::min_entries_
    max_entries_,   \* RTree::max_entries_
    inserted,       \* history: the items of the completed insert calls, in order
    op              \* the last public call, its arguments and its return value

vars == <<nodes, root_, min_entries_, max_entries_, inserted, op>>

tree == <<nodes, root_, min_entries_, max_entries_>>

----------------------------------------------------------------------------
(* Bounds of the model *)

MaxInserts == 6     \* number of insert calls explored
GeomCoord == 2      \* the geometry operations are explored on coordinates 0..GeomCoord
SizeBits == 6       \* width of size_t in the model

SizeMod == 2^SizeBits

NULL == 0

Min(a, b) == IF a < b THEN a ELSE b
Max(a, b) == IF a > b THEN a ELSE b

\* body(v), with v evaluated once: a local variable of the code holding the
\* value v in the statements body that follow its assignment
Bind(v, body(_)) == CHOOSE res \in {body(x) : x \in {v}} : TRUE

----------------------------------------------------------------------------
(* Geometry: Point, Rectangle *)

Point(x_, y_) == [x |-> x_, y |-> y_]

Rectangle(min_x, min_y, max_x, max_y) ==
    [min_corner |-> Point(min_x, min_y), max_corner |-> Point(max_x, max_y)]

\* Rectangle::Rectangle() = default: both corners are Point() = (0.0, 0.0)
DefaultRectangle == Rectangle(0, 0, 0, 0)

\* the test the code repeats inline in expand, combine and area_increase
is_invalid(r) ==
    r.min_corner.x > r.max_corner.x \/ r.min_corner.y > r.max_corner.y

\* Rectangle::contains(const Rectangle &)
contains(r, other) ==
    /\ other.min_corner.x >= r.min_corner.x
    /\ other.max_corner.x <= r.max_corner.x
    /\ other.min_corner.y >= r.min_corner.y
    /\ other.max_corner.y <= r.max_corner.y

area(r) ==
    IF r.max_corner.x < r.min_corner.x \/ r.max_corner.y < r.min_corner.y
    THEN 0
    ELSE (r.max_corner.x - r.min_corner.x) * (r.max_corner.y - r.min_corner.y)

intersects(r, other) ==
    IF \/ r.max_corner.x < other.min_corner.x
       \/ r.min_corner.x > other.max_corner.x
       \/ r.max_corner.y < other.min_corner.y
       \/ r.min_corner.y > other.max_corner.y
    THEN FALSE
    ELSE TRUE

\* expand that raises max_corner only
expand_max_only(r, other) ==
    IF other.min_corner.x > other.max_corner.x \/ other.min_corner.y > other.max_corner.y
    THEN r
    ELSE IF r.min_corner.x > r.max_corner.x \/ r.min_corner.y > r.max_corner.y
    THEN other
    ELSE Rectangle(r.min_corner.x, r.min_corner.y,
                   Max(r.max_corner.x, other.max_corner.x),
                   Max(r.max_corner.y, other.max_corner.y))

\* expand mutates *this; the operator returns the new value of *this
expand(r, other) ==
    IF other.min_corner.x > other.max_corner.x \/ other.min_corner.y > other.max_corner.y
    THEN r
    ELSE IF r.min_corner.x > r.max_corner.x \/ r.min_corner.y > r.max_corner.y
    THEN other
    ELSE Rectangle(Min(r.min_corner.x, other.min_corner.x),
                   Min(r.min_corner.y, other.min_corner.y),
                   Max(r.max_corner.x, other.max_corner.x),
                   Max(r.max_corner.y, other.max_corner.y))

combine(r1, r2) ==
    LET r1_invalid == r1.min_corner.x > r1.max_corner.x \/ r1.min_corner.y > r1.max_corner.y
        r2_invalid == r2.min_corner.x > r2.max_corner.x \/ r2.min_corner.y > r2.max_corner.y
    IN  IF r1_invalid /\ r2_invalid THEN DefaultRectangle
        ELSE IF r1_invalid THEN r2
        ELSE IF r2_invalid THEN r1
        ELSE Rectangle(Min(r1.min_corner.x, r2.min_corner.x),
                       Min(r1.min_corner.y, r2.min_corner.y),
                       Max(r1.max_corner.x, r2.max_corner.x),
                       Max(r1.max_corner.y, r2.max_corner.y))

\* area_increase whose invalid-receiver case answers with the receiver's area
area_increase_own_area(r, other) ==
    IF other.min_corner.x > other.max_corner.x \/ other.min_corner.y > other.max_corner.y
    THEN 0
    ELSE IF r.min_corner.x > r.max_corner.x \/ r.min_corner.y > r.max_corner.y
    THEN area(r)
    ELSE area(combine(r, other)) - area(r)

area_increase(r, other) ==
    IF other.min_corner.x > other.max_corner.x \/ other.min_corner.y > other.max_corner.y
    THEN 0
    ELSE IF r.min_corner.x > r.max_corner.x \/ r.min_corner.y > r.max_corner.y
    THEN area(other)
    ELSE area(combine(r, other)) - area(r)

----------------------------------------------------------------------------
(* DataItem and RTreeNode *)

DataItem(id_, name_, pop_, b_) ==
    [id |-> id_, name |-> name_, population |-> pop_, bounds |-> b_]

\* RTreeNode::RTreeNode(bool leaf): mbr is default-initialised
RTreeNode(leaf) ==
    [mbr |-> DefaultRectangle, is_leaf |-> leaf, parent |-> NULL,
     data_entries |-> <<>>, children |-> <<>>]

size(node) == IF node.is_leaf THEN Len(node.data_entries) ELSE Len(node.children)

\* is_full that lets a node reach max_entries: size() > max_entries
is_full_above(node, max_entries) == size(node) > max_entries

\* is_full with the capacity test two entries late
is_full_late(node, max_entries) == size(node) > max_entries + 1

is_full(node, max_entries) == size(node) >= max_entries

\* the loop "for i in from..size-1: mbr.expand(data_entries[i].bounds)"
RECURSIVE ExpandEntries(_, _, _)
ExpandEntries(mbr, entries, i) ==
    IF i > Len(entries) THEN mbr
    ELSE Bind(expand(mbr, entries[i].bounds),
              LAMBDA m : ExpandEntries(m, entries, i + 1))

\* the loop "for i in from..size-1: if (children[i]) mbr.expand(children[i]->mbr)"
RECURSIVE ExpandChildren(_, _, _, _)
ExpandChildren(ns, mbr, children, i) ==
    IF i > Len(children) THEN mbr
    ELSE IF children[i] # NULL
    THEN Bind(expand(mbr, ns[children[i]].mbr),
              LAMBDA m : ExpandChildren(ns, m, children, i + 1))
    ELSE ExpandChildren(ns, mbr, children, i + 1)

\* the loop that skips leading null children; Len+1 when there is none
RECURSIVE FirstValidChild(_, _)
FirstValidChild(children, i) ==
    IF i <= Len(children) /\ children[i] = NULL
    THEN FirstValidChild(children, i + 1)
    ELSE i

\* RTreeNode::update_mbr on node n of arena ns; returns the new arena
update_mbr(ns, n) ==
    LET node == ns[n] IN
    IF node.is_leaf
    THEN IF node.data_entries = <<>>
         THEN [ns EXCEPT ![n].mbr = DefaultRectangle]
         ELSE [ns EXCEPT ![n].mbr =
                  ExpandEntries(node.data_entries[1].bounds, node.data_entries, 2)]
    ELSE IF node.children = <<>>
         THEN [ns EXCEPT ![n].mbr = DefaultRectangle]
         ELSE LET first_valid_child == FirstValidChild(node.children, 1) IN
              IF first_valid_child > Len(node.children)
              THEN [ns EXCEPT ![n].mbr = DefaultRectangle]
              ELSE [ns EXCEPT ![n].mbr =
                       ExpandChildren(ns, ns[node.children[first_valid_child]].mbr,
                                      node.children, first_valid_child + 1)]

----------------------------------------------------------------------------
(* size_t arithmetic: unsigned, wrapping at the width of size_t *)

SizeT(v) == v % SizeMod

\* std::numeric_limits<double>::max(): above every area of the model
DBL_MAX == 2147483647

----------------------------------------------------------------------------
(* RTree private helpers.  They read the members min_entries_ and          *)
(* max_entries_ and work on an arena value ns.                             *)

\* the selection loop of choose_subtree from child index i on;
\* st = [best_child, min_increase, min_area]
RECURSIVE ChooseLoop(_, _, _, _, _)
ChooseLoop(ns, children, item_bounds, i, st) ==
    IF i > Len(children) THEN st
    ELSE IF children[i] = NULL
    THEN ChooseLoop(ns, children, item_bounds, i + 1, st)
    ELSE LET child == ns[children[i]]
             current_area == area(child.mbr)
             increase == area_increase(child.mbr, item_bounds)
             st1 == IF increase < st.min_increase
                    THEN [best_child |-> children[i], min_increase |-> increase,
                          min_area |-> current_area]
                    ELSE IF increase = st.min_increase
                    THEN IF st.best_child = NULL \/ current_area < st.min_area
                         THEN [st EXCEPT !.min_area = current_area,
                                         !.best_child = children[i]]
                         ELSE st
                    ELSE st
         IN  Bind(st1, LAMBDA s : ChooseLoop(ns, children, item_bounds, i + 1, s))

\* choose_subtree that settles for the first non-null child
choose_subtree_first(ns, n, item_bounds) ==
    IF ns[n].children = <<>> THEN NULL
    ELSE IF FirstValidChild(ns[n].children, 1) <= Len(ns[n].children)
    THEN ns[n].children[FirstValidChild(ns[n].children, 1)]
    ELSE NULL

\* RTree::choose_subtree; NULL stands for either std::runtime_error
choose_subtree(ns, n, item_bounds) ==
    LET node == ns[n] IN
    IF node.children = <<>> THEN NULL
    ELSE LET st == ChooseLoop(ns, node.children, item_bounds, 1,
                              [best_child |-> NULL, min_increase |-> DBL_MAX,
                               min_area |-> DBL_MAX])
             fv == FirstValidChild(node.children, 1)
         IN  IF st.best_child # NULL THEN st.best_child
             ELSE IF fv <= Len(node.children) THEN node.children[fv]
             ELSE NULL

\* the split point computed by split_node for a node of total_size entries
split_index_of(total_size) ==
    LET s0 == Max(min_entries_, total_size \div 2)
        s1 == IF total_size > SizeT(min_entries_ * 2)
              THEN LET a == IF SizeT(total_size - s0) < min_entries_
                            THEN SizeT(total_size - min_entries_)
                            ELSE s0
                   IN  IF a < min_entries_ THEN min_entries_ ELSE a
              ELSE SizeT(total_size + 1) \div 2
    IN  Max(1, Min(s1, IF total_size > 1 THEN total_size - 1 ELSE 1))

\* the children keep the parent they had
SetParents_none(ns, children, i, p) == ns

\* children[i]->parent = p for every non-null child of the sequence
RECURSIVE SetParents(_, _, _, _)
SetParents(ns, children, i, p) ==
    IF i > Len(children) THEN ns
    ELSE IF children[i] # NULL
    THEN Bind([ns EXCEPT ![children[i]].parent = p],
              LAMBDA ns1 : SetParents(ns1, children, i + 1, p))
    ELSE SetParents(ns, children, i + 1, p)

\* the sibling allocated by split_node: a leaf whatever the kind of the node
new_sibling_default_leaf(node) == [RTreeNode(TRUE) EXCEPT !.parent = node.parent]

\* the sibling allocated by split_node: same kind and same parent as the node
new_sibling(node) == [RTreeNode(node.is_leaf) EXCEPT !.parent = node.parent]

\* the entries or children moved to the sibling, last one first
moved_part_reversed(contents, split_index) ==
    [i \in 1..(Len(contents) - split_index) |-> contents[Len(contents) + 1 - i]]

\* the entries or children moved to the sibling, one too few
moved_part_short(contents, split_index) ==
    SubSeq(contents, split_index + 2, Len(contents))

\* the entries or children assigned to the sibling: [begin + split_index, end)
moved_part(contents, split_index) ==
    SubSeq(contents, split_index + 1, Len(contents))

\* the original node erased from begin: it keeps nothing
kept_part_none(contents, split_index) == <<>>

\* what the original node keeps after erase(begin + split_index, end)
kept_part(contents, split_index) == SubSeq(contents, 1, split_index)

\* the entries of a leaf or the children of an internal node
contents_of(node) == IF node.is_leaf THEN node.data_entries ELSE node.children

\* RTree::split_node on node n; the new node is allocated at the end of the
\* arena.  Returns the new arena and the pointer to the new node.
split_node(ns, n) ==
    LET node == ns[n]
        total_size == size(node)
        split_index == split_index_of(total_size)
        new_node == Len(ns) + 1
        moved == moved_part(node.children, split_index)
        ns0 == Append(ns, new_sibling(node))
        ns1 == IF node.is_leaf
               THEN IF split_index < Len(node.data_entries)
                    THEN [ns0 EXCEPT
                            ![new_node].data_entries =
                                moved_part(node.data_entries, split_index),
                            ![n].data_entries =
                                kept_part(node.data_entries, split_index)]
                    ELSE ns0
               ELSE IF split_index < Len(node.children)
                    THEN Bind([ns0 EXCEPT
                                 ![new_node].children = moved,
                                 ![n].children =
                                     kept_part(node.children, split_index)],
                              LAMBDA a : SetParents(a, moved, 1, new_node))
                    ELSE ns0
    IN  Bind(ns1, LAMBDA a :
        Bind(update_mbr(a, n), LAMBDA b :
        Bind(update_mbr(b, new_node), LAMBDA c :
            [ns |-> c, split |-> new_node])))

\* history of one split_node call: the node, its contents before the call,
\* and the contents of the node and of the new sibling after it
split_record(ns, n, s) ==
    [node |-> n, new_node |-> s.split, before |-> contents_of(ns[n]),
     kept |-> contents_of(s.ns[n]), moved |-> contents_of(s.ns[s.split])]

\* history of one insert_recursive call: the node and its mbr right after the
\* expand that opens the call, before the item is stored or handed down
visit_record(ns, n) == << [node |-> n, mbr |-> ns[n].mbr] >>

\* RTree::insert_recursive on node n.  Returns the new arena, the pointer to
\* the node split off n (NULL when n was not split), whether choose_subtree
\* threw somewhere below, and the history of the nodes visited and of the
\* split_node calls made.
RECURSIVE insert_recursive(_, _, _)
insert_recursive(ns, n, item) ==
    Bind([ns EXCEPT ![n].mbr = expand(ns[n].mbr, item.bounds)], LAMBDA ns1 :
    IF ns1[n].is_leaf
    THEN Bind([ns1 EXCEPT ![n].data_entries = Append(@, item)], LAMBDA ns2 :
         IF is_full(ns2[n], max_entries_)
         THEN Bind(split_node(ns2, n), LAMBDA s :
                   [ns |-> s.ns, split |-> s.split, threw |-> FALSE,
                    path |-> visit_record(ns1, n),
                    splits |-> << split_record(ns2, n, s) >>])
         ELSE [ns |-> ns2, split |-> NULL, threw |-> FALSE,
               path |-> visit_record(ns1, n), splits |-> <<>>])
    ELSE Bind(choose_subtree(ns1, n, item.bounds), LAMBDA subtree_to_insert :
         IF subtree_to_insert = NULL
         THEN [ns |-> ns1, split |-> NULL, threw |-> TRUE,
               path |-> visit_record(ns1, n), splits |-> <<>>]
         ELSE Bind(insert_recursive(ns1, subtree_to_insert, item), LAMBDA r :
              IF r.threw
              THEN [r EXCEPT !.path = visit_record(ns1, n) \o @]
              ELSE IF r.split # NULL
              THEN Bind([r.ns EXCEPT ![r.split].parent = n,
                                     ![n].children = Append(@, r.split)],
                        LAMBDA ns3 :
                   IF is_full(ns3[n], max_entries_)
                   THEN Bind(split_node(ns3, n), LAMBDA s :
                             [ns |-> s.ns, split |-> s.split, threw |-> FALSE,
                              path |-> visit_record(ns1, n) \o r.path,
                              splits |-> Append(r.splits, split_record(ns3, n, s))])
                   ELSE [ns |-> ns3, split |-> NULL, threw |-> FALSE,
                         path |-> visit_record(ns1, n) \o r.path,
                         splits |-> r.splits])
              ELSE [ns |-> r.ns, split |-> NULL, threw |-> FALSE,
                    path |-> visit_record(ns1, n) \o r.path,
                    splits |-> r.splits])))

\* RTree::search_recursive: the items appended to results, in order
RECURSIVE search_recursive(_, _, _)
RECURSIVE SearchChildren(_, _, _, _)
search_recursive(ns, n, query_rect) ==
    IF n = NULL THEN <<>>
    ELSE IF ns[n].is_leaf
    THEN SelectSeq(ns[n].data_entries,
                   LAMBDA item : intersects(item.bounds, query_rect))
    ELSE SearchChildren(ns, ns[n].children, query_rect, 1)

SearchChildren(ns, children, query_rect, i) ==
    IF i > Len(children) THEN <<>>
    ELSE IF children[i] # NULL /\ intersects(ns[children[i]].mbr, query_rect)
    THEN search_recursive(ns, children[i], query_rect)
            \o SearchChildren(ns, children, query_rect, i + 1)
    ELSE SearchChildren(ns, children, query_rect, i + 1)

\* the leaf test of search_pop_recursive with a strict comparison
matches_pop_query_strict(item, query_rect, min_population) ==
    item.population > min_population /\ intersects(item.bounds, query_rect)

\* the leaf test of search_pop_recursive: population and intersection
matches_pop_query(item, query_rect, min_population) ==
    item.population >= min_population /\ intersects(item.bounds, query_rect)

\* a descent test that also skips a leaf holding no item of the wanted
\* population
descends_pop_pruning(ns, child, query_rect, min_population) ==
    /\ child # NULL
    /\ intersects(ns[child].mbr, query_rect)
    /\ ns[child].is_leaf =>
           \E i \in DOMAIN ns[child].data_entries :
               ns[child].data_entries[i].population >= min_population

\* the descent test of search_pop_recursive: the child exists and its mbr
\* intersects the query; min_population takes no part
descends_pop(ns, child, query_rect, min_population) ==
    child # NULL /\ intersects(ns[child].mbr, query_rect)

\* RTree::search_pop_recursive
RECURSIVE search_pop_recursive(_, _, _, _)
RECURSIVE SearchPopChildren(_, _, _, _, _)
search_pop_recursive(ns, n, query_rect, min_population) ==
    IF n = NULL THEN <<>>
    ELSE IF ns[n].is_leaf
    THEN SelectSeq(ns[n].data_entries,
                   LAMBDA item : matches_pop_query(item, query_rect, min_population))
    ELSE SearchPopChildren(ns, ns[n].children, query_rect, min_population, 1)

SearchPopChildren(ns, children, query_rect, min_population, i) ==
    IF i > Len(children) THEN <<>>
    ELSE IF descends_pop(ns, children[i], query_rect, min_population)
    THEN search_pop_recursive(ns, children[i], query_rect, min_population)
            \o SearchPopChildren(ns, children, query_rect, min_population, i + 1)
    ELSE SearchPopChildren(ns, children, query_rect, min_population, i + 1)

\* the nodes on which search_recursive is called, in call order, when it is
\* called on node n
RECURSIVE search_visits(_, _, _)
RECURSIVE SearchChildrenVisits(_, _, _, _)
search_visits(ns, n, query_rect) ==
    IF n = NULL THEN <<>>
    ELSE IF ns[n].is_leaf
    THEN << n >>
    ELSE << n >> \o SearchChildrenVisits(ns, ns[n].children, query_rect, 1)

SearchChildrenVisits(ns, children, query_rect, i) ==
    IF i > Len(children) THEN <<>>
    ELSE IF children[i] # NULL /\ intersects(ns[children[i]].mbr, query_rect)
    THEN search_visits(ns, children[i], query_rect)
            \o SearchChildrenVisits(ns, children, query_rect, i + 1)
    ELSE SearchChildrenVisits(ns, children, query_rect, i + 1)

\* the nodes on which search_pop_recursive is called, in call order
RECURSIVE search_pop_visits(_, _, _, _)
RECURSIVE SearchPopChildrenVisits(_, _, _, _, _)
search_pop_visits(ns, n, query_rect, min_population) ==
    IF n = NULL THEN <<>>
    ELSE IF ns[n].is_leaf
    THEN << n >>
    ELSE << n >> \o SearchPopChildrenVisits(ns, ns[n].children, query_rect,
                                            min_population, 1)

SearchPopChildrenVisits(ns, children, query_rect, min_population, i) ==
    IF i > Len(children) THEN <<>>
    ELSE IF descends_pop(ns, children[i], query_rect, min_population)
    THEN search_pop_visits(ns, children[i], query_rect, min_population)
            \o SearchPopChildrenVisits(ns, children, query_rect, min_population, i + 1)
    ELSE SearchPopChildrenVisits(ns, children, query_rect, min_population, i + 1)

----------------------------------------------------------------------------
(* RTree public methods, as functions of the current state *)

\* the nodes visited by RTree::search
search_visited(query_rect) ==
    IF root_ # NULL /\ intersects(nodes[root_].mbr, query_rect)
    THEN search_visits(nodes, root_, query_rect)
    ELSE <<>>

\* the nodes visited by RTree::search_with_population
search_with_population_visited(query_rect, min_population) ==
    IF root_ # NULL /\ intersects(nodes[root_].mbr, query_rect)
    THEN search_pop_visits(nodes, root_, query_rect, min_population)
    ELSE <<>>

\* RTree::search
search(query_rect) ==
    IF root_ # NULL /\ intersects(nodes[root_].mbr, query_rect)
    THEN search_recursive(nodes, root_, query_rect)
    ELSE <<>>

\* RTree::search_with_population
search_with_population(query_rect, min_population) ==
    IF root_ # NULL /\ intersects(nodes[root_].mbr, query_rect)
    THEN search_pop_recursive(nodes, root_, query_rect, min_population)
    ELSE <<>>

\* empty() that tests only the root pointer
empty_root_only == root_ = NULL

\* RTree::empty
empty == root_ = NULL \/ size(nodes[root_]) = 0

----------------------------------------------------------------------------
(* Inputs *)

\* constructor arguments; the last one has the top bit of size_t set
MinEntriesArgs == {0, 2, 3, SizeMod \div 2}
MaxEntriesArgs == {3, 5}

\* the items a caller inserts: valid boxes away from the origin, a negative
\* attribute, and a box with min > max on both axes
Items ==
    { DataItem(1, "a", 1, Rectangle(1, 1, 2, 2)),
      DataItem(2, "b", -1, Rectangle(2, 0, 3, 1)),
      DataItem(3, "c", 2, Rectangle(3, 3, 1, 1)) }

Coords == 0 .. GeomCoord

\* every rectangle over the coordinate range, valid or not
Rectangles ==
    { Rectangle(a, b, c, d) : a \in Coords, b \in Coords, c \in Coords, d \in Coords }

\* the rectangles a caller queries: one covering every item, one touching
\* only the first item
QueryRects == { Rectangle(0, 0, 3, 3), Rectangle(2, 2, 3, 3) }

Thresholds == {-1, 0, 2}

----------------------------------------------------------------------------
(* Actions *)

\* RTree::RTree(min_entries, max_entries)
Construct(min_entries, max_entries) ==
    /\ min_entries_ = Max(2, min_entries)
    /\ max_entries_ = Max(3, Max(SizeT(Max(2, min_entries) * 2), max_entries))
    /\ nodes = << RTreeNode(TRUE) >>
    /\ root_ = 1
    /\ inserted = <<>>
    /\ op = [name |-> "RTree", min_entries |-> min_entries,
             max_entries |-> max_entries]

Init == \E mn \in MinEntriesArgs, mx \in MaxEntriesArgs : Construct(mn, mx)

\* RTree::insert(item)
Insert(item) ==
    /\ Len(inserted) < MaxInserts
    /\ \E ns0 \in {IF root_ = NULL THEN Append(nodes, RTreeNode(TRUE)) ELSE nodes},
          r0 \in {IF root_ = NULL THEN Len(nodes) + 1 ELSE root_} :
         \E r \in {insert_recursive(ns0, r0, item)} :
           IF r.threw
           THEN /\ nodes' = r.ns
                /\ root_' = r0
                /\ inserted' = inserted
                /\ op' = [name |-> "throw", item |-> item, old_root |-> r0,
                          path |-> r.path, splits |-> r.splits]
           ELSE /\ IF r.split # NULL
                   THEN LET new_root == Len(r.ns) + 1
                            nr == [RTreeNode(FALSE) EXCEPT
                                     !.mbr = combine(r.ns[r0].mbr, r.ns[r.split].mbr),
                                     !.children = << r0, r.split >>]
                        IN  /\ nodes' = Append([r.ns EXCEPT ![r0].parent = new_root,
                                                            ![r.split].parent = new_root],
                                               nr)
                            /\ root_' = new_root
                   ELSE /\ nodes' = r.ns
                        /\ root_' = r0
                /\ inserted' = Append(inserted, item)
                /\ op' = [name |-> "insert", item |-> item, old_root |-> r0,
                          path |-> r.path, splits |-> r.splits]
    /\ UNCHANGED <<min_entries_, max_entries_>>

\* a search that expands the root's mbr by the query, as the descent of
\* insert_recursive does with the item
Search_expanding(query_rect) ==
    /\ op' = [name |-> "search", query_rect |-> query_rect,
              results |-> search(query_rect)]
    /\ nodes' = IF root_ = NULL THEN nodes
                ELSE [nodes EXCEPT ![root_].mbr = expand(@, query_rect)]
    /\ UNCHANGED <<root_, min_entries_, max_entries_, inserted>>

\* RTree::search(query_rect) const
Search(query_rect) ==
    /\ op' = [name |-> "search", query_rect |-> query_rect,
              results |-> search(query_rect)]
    /\ UNCHANGED <<nodes, root_, min_entries_, max_entries_, inserted>>

\* RTree::search_with_population(query_rect, min_population) const
SearchWithPopulation(query_rect, min_population) ==
    /\ op' = [name |-> "search_with_population", query_rect |-> query_rect,
              min_population |-> min_population,
              results |-> search_with_population(query_rect, min_population)]
    /\ UNCHANGED <<nodes, root_, min_entries_, max_entries_, inserted>>

\* RTree::empty() const
Empty ==
    /\ op' = [name |-> "empty", result |-> empty]
    /\ UNCHANGED <<nodes, root_, min_entries_, max_entries_, inserted>>

\* a direct call self.intersects(other) on the two rectangles the caller holds
CallIntersects ==
    /\ op.name = "args"
    /\ op' = [name |-> "intersects", self |-> op.self, other |-> op.other,
              result |-> intersects(op.self, op.other)]
    /\ UNCHANGED <<nodes, root_, min_entries_, max_entries_, inserted>>

\* a direct call self.expand(other); result is the receiver after the call
CallExpand ==
    /\ op.name = "args"
    /\ op' = [name |-> "expand", self |-> op.self, other |-> op.other,
              result |-> expand(op.self, op.other)]
    /\ UNCHANGED <<nodes, root_, min_entries_, max_entries_, inserted>>

\* a direct call Rectangle::combine(r1, r2)
CallCombine ==
    /\ op.name = "args"
    /\ op' = [name |-> "combine", r1 |-> op.self, r2 |-> op.other,
              result |-> combine(op.self, op.other)]
    /\ UNCHANGED <<nodes, root_, min_entries_, max_entries_, inserted>>

\* a direct call self.area_increase(other)
CallAreaIncrease ==
    /\ op.name = "args"
    /\ op' = [name |-> "area_increase", self |-> op.self, other |-> op.other,
              result |-> area_increase(op.self, op.other)]
    /\ UNCHANGED <<nodes, root_, min_entries_, max_entries_, inserted>>

Next ==
    \/ \E item \in Items : Insert(item)
    \/ \E q \in QueryRects : Search(q)
    \/ \E q \in QueryRects, t \in Thresholds : SearchWithPopulation(q, t)
    \/ Empty

Spec == Init /\ [][Next]_vars

\* the geometry operations called directly: the caller holds any two rectangles
\* over the coordinate range (beside a default-constructed tree) and applies
\* one operation to them
InitGeom ==
    \E r \in Rectangles, other \in Rectangles :
        /\ min_entries_ = 2
        /\ max_entries_ = 4
        /\ nodes = << RTreeNode(TRUE) >>
        /\ root_ = 1
        /\ inserted = <<>>
        /\ op = [name |-> "args", self |-> r, other |-> other]

NextGeom == CallIntersects \/ CallExpand \/ CallCombine \/ CallAreaIncrease

SpecGeom == InitGeom /\ [][NextGeom]_vars

----------------------------------------------------------------------------
(* Vocabulary of the properties *)

\* the bag of the elements of a sequence
BagOfSeq(s) ==
    [e \in {s[i] : i \in DOMAIN s} |-> Cardinality({i \in DOMAIN s : s[i] = e})]

\* two boxes share a point; a box with min > max on an axis has no point
Overlaps(a, b) ==
    /\ ~is_invalid(a) /\ ~is_invalid(b)
    /\ a.min_corner.x <= b.max_corner.x /\ b.min_corner.x <= a.max_corner.x
    /\ a.min_corner.y <= b.max_corner.y /\ b.min_corner.y <= a.max_corner.y

\* the boxes of a node's contents
ContentBoxes(n) ==
    IF nodes[n].is_leaf
    THEN {nodes[n].data_entries[i].bounds : i \in DOMAIN nodes[n].data_entries}
    ELSE {nodes[nodes[n].children[i]].mbr : i \in DOMAIN nodes[n].children}

ValidBoxes(n) == {b \in ContentBoxes(n) : ~is_invalid(b)}

MinOf(S) == CHOOSE v \in S : \A w \in S : v <= w
MaxOf(S) == CHOOSE v \in S : \A w \in S : v >= w

\* the minimal box enclosing a non-empty set of valid boxes
BoundingBox(S) ==
    Rectangle(MinOf({b.min_corner.x : b \in S}), MinOf({b.min_corner.y : b \in S}),
              MaxOf({b.max_corner.x : b \in S}), MaxOf({b.max_corner.y : b \in S}))

NonRootNodes == {n \in DOMAIN nodes : n # root_}

----------------------------------------------------------------------------
(* Properties *)

\* C1: after any sequence of inserts, search(Q) returns exactly the inserted
\* items whose bounds intersect Q, each as often as it was inserted.
C1_SearchExact ==
    \A q \in QueryRects :
        BagOfSeq(search(q))
            = BagOfSeq(SelectSeq(inserted, LAMBDA it : Overlaps(it.bounds, q)))

\* C2: search_with_population(Q, t) returns exactly the inserted items whose
\* bounds intersect Q and whose population is >= t.
C2_PopulationSearchExact ==
    \A q \in QueryRects, t \in Thresholds :
        BagOfSeq(search_with_population(q, t))
            = BagOfSeq(SelectSeq(inserted,
                  LAMBDA it : Overlaps(it.bounds, q) /\ it.population >= t))

\* C3: after every completed insert, every node's mbr is exactly the minimal
\* box enclosing the boxes of its contents (an invalid box when no content has
\* a valid box).
C3_MbrTight ==
    Len(inserted) > 0 =>
        \A n \in DOMAIN nodes :
            IF ValidBoxes(n) = {}
            THEN is_invalid(nodes[n].mbr)
            ELSE nodes[n].mbr = BoundingBox(ValidBoxes(n))

\* C4: every node except the root holds at least min_entries_ entries or
\* children.
C4_MinFanout ==
    \A n \in NonRootNodes : size(nodes[n]) >= min_entries_

\* C5: after any insert, every node except the root holds at most
\* max_entries_ entries or children.
C5_MaxFanout ==
    \A n \in NonRootNodes : size(nodes[n]) <= max_entries_

\* a split has happened and some non-root node is one short of max_entries_
C5_Witness ==
    /\ op.name = "insert"
    /\ \E n \in NonRootNodes : size(nodes[n]) = max_entries_ - 1

\* C6 as stated: with threshold 0, and with any threshold <= the smallest
\* inserted population, search_with_population returns what search returns.
C6_ZeroThresholdSameAsSearch ==
    \A q \in QueryRects :
        /\ search_with_population(q, 0) = search(q)
        /\ \A t \in Thresholds :
               (\A i \in DOMAIN inserted : t <= inserted[i].population)
                   => search_with_population(q, t) = search(q)

\* C6 amended: with any threshold <= the smallest inserted population (0 only
\* when no inserted population is negative), search_with_population returns
\* the same items in the same order as search.
C6_LowThresholdSameAsSearch ==
    \A q \in QueryRects, t \in Thresholds :
        (\A i \in DOMAIN inserted : t <= inserted[i].population)
            => search_with_population(q, t) = search(q)

\* an item with a negative population is stored, a threshold equal to the
\* smallest population is used and the search returns several items
C6_Witness ==
    /\ op.name = "search_with_population"
    /\ \E i \in DOMAIN inserted : inserted[i].population < 0
    /\ \A i \in DOMAIN inserted : op.min_population <= inserted[i].population
    /\ \E i \in DOMAIN inserted : op.min_population = inserted[i].population
    /\ Len(op.results) >= 2
    /\ Len(nodes) > 1

\* C7: an inserted item whose bounds have min > max on some axis is never
\* returned by search or search_with_population.
C7_InvalidItemNeverReturned ==
    \A q \in QueryRects :
        /\ \A i \in DOMAIN search(q) : ~is_invalid(search(q)[i].bounds)
        /\ \A t \in Thresholds :
               \A i \in DOMAIN search_with_population(q, t) :
                   ~is_invalid(search_with_population(q, t)[i].bounds)

\* C8: intersects returns false whenever either operand is an invalid
\* rectangle.
C8_InvalidNeverIntersects ==
    op.name = "intersects" =>
        ((is_invalid(op.self) \/ is_invalid(op.other)) => op.result = FALSE)

\* C9: a freshly constructed tree is empty; after the first insert and after
\* every later one it is not.
C9_EmptyIffNothingInserted ==
    /\ empty <=> (Len(inserted) = 0)
    /\ op.name = "empty" => (op.result <=> (Len(inserted) = 0))

\* empty() was called after an insert and returned false
C9_Witness ==
    /\ op.name = "empty"
    /\ Len(inserted) > 0
    /\ op.result = FALSE

\* C10: a search or search_with_population call changes nothing of the tree,
\* and a call repeated with the same arguments returns the same sequence.
C10_ReadsLeaveTreeUnchanged ==
    [][ /\ (op'.name \in {"search", "search_with_population"}) => (tree' = tree)
        /\ (op.name = "search" /\ op'.name = "search"
                /\ op'.query_rect = op.query_rect)
             => (op'.results = op.results)
        /\ (op.name = "search_with_population"
                /\ op'.name = "search_with_population"
                /\ op'.query_rect = op.query_rect
                /\ op'.min_population = op.min_population)
             => (op'.results = op.results) ]_vars

\* a search on a tree that has split returned several items
C10_Witness ==
    /\ op.name = "search"
    /\ Len(op.results) >= 2
    /\ Len(nodes) > 1

\* C11: for every pair given to the constructor, the effective min_entries_ is
\* >= 2, the effective max_entries_ is >= max(3, 2*min_entries_) and >= the
\* given max_entries, and a pair that already satisfies this is kept.
C11_EffectiveConfiguration ==
    op.name = "RTree" =>
        /\ min_entries_ >= 2
        /\ max_entries_ >= Max(3, 2 * min_entries_)
        /\ max_entries_ >= op.max_entries
        /\ (op.min_entries >= 2 /\ op.max_entries >= Max(3, 2 * op.min_entries))
               => (min_entries_ = op.min_entries /\ max_entries_ = op.max_entries)

\* the depths, counted from node n at depth d, of the leaves below n
RECURSIVE LeafDepths(_, _)
LeafDepths(n, d) ==
    IF nodes[n].is_leaf
    THEN {d}
    ELSE UNION {LeafDepths(nodes[n].children[i], d + 1) :
                    i \in DOMAIN nodes[n].children}

\* C12: after any sequence of inserts, all leaves are at the same depth from
\* the root.
C12_LeavesSameDepth ==
    root_ # NULL => Cardinality(LeafDepths(root_, 0)) = 1

\* an internal node has been split: the leaves are two levels below the root
C12_Witness ==
    /\ op.name = "insert"
    /\ \E i \in DOMAIN op.splits : ~nodes[op.splits[i].node].is_leaf
    /\ LeafDepths(root_, 0) = {2}

\* C13: combine(r1, r2) returns an invalid rectangle whenever both r1 and r2
\* are invalid.
C13_CombineInvalidsInvalid ==
    op.name = "combine" =>
        ((is_invalid(op.r1) /\ is_invalid(op.r2)) => is_invalid(op.result))

\* C14 as stated: for every invalid r and every x, r.area_increase(x) is 0.
C14_InvalidReceiverZeroIncrease ==
    op.name = "area_increase" => (is_invalid(op.self) => op.result = 0)

\* C14 amended: for every invalid r and every x, r.area_increase(x) is the
\* area of x, which is 0 when x is invalid.
C14_InvalidReceiverIncreaseIsArea ==
    op.name = "area_increase" =>
        (is_invalid(op.self) =>
            /\ op.result = area(op.other)
            /\ is_invalid(op.other) => op.result = 0)

\* area_increase was called on an invalid receiver with a box of positive area
C14_Witness ==
    /\ op.name = "area_increase"
    /\ is_invalid(op.self)
    /\ ~is_invalid(op.other)
    /\ op.result > 0

\* C15: for every valid r, Rectangle().expand(r) leaves the receiver equal
\* to r.
C15_ExpandDefaultBecomesOther ==
    op.name = "expand" =>
        ((op.self = DefaultRectangle /\ ~is_invalid(op.other))
            => op.result = op.other)

\* the items stored in the leaves of the subtree of node n
RECURSIVE SubtreeItems(_)
SubtreeItems(n) ==
    IF nodes[n].is_leaf
    THEN {nodes[n].data_entries[i] : i \in DOMAIN nodes[n].data_entries}
    ELSE UNION {SubtreeItems(nodes[n].children[i]) :
                    i \in DOMAIN nodes[n].children}

\* C16: while an item with valid bounds is inserted, every node visited from
\* the root down to the receiving leaf has, from the moment it is visited, an
\* mbr containing the item's bounds; after the insert every node's mbr contains
\* the bounds of every valid item stored in its subtree.
C16_MbrContainsSubtree ==
    /\ \A n \in DOMAIN nodes :
           \A it \in SubtreeItems(n) :
               ~is_invalid(it.bounds) => contains(nodes[n].mbr, it.bounds)
    /\ (op.name \in {"insert", "throw"} /\ ~is_invalid(op.item.bounds)) =>
           /\ op.path[1].node = op.old_root
           /\ \A i \in DOMAIN op.path : contains(op.path[i].mbr, op.item.bounds)
           /\ op.name = "insert" => nodes[op.path[Len(op.path)].node].is_leaf

\* a valid item went down through an internal node into a leaf that split
C16_Witness ==
    /\ op.name = "insert"
    /\ ~is_invalid(op.item.bounds)
    /\ Len(op.path) >= 2
    /\ Len(op.splits) >= 1
    /\ \E n \in DOMAIN nodes :
           ~nodes[n].is_leaf /\ Cardinality(SubtreeItems(n)) >= 2

\* C17: every split_node call leaves the original node with at least as many
\* entries or children as the newly created sibling.
C17_OriginalKeepsSurplus ==
    op.name \in {"insert", "throw"} =>
        \A i \in DOMAIN op.splits :
            Len(op.splits[i].kept) >= Len(op.splits[i].moved)

\* the items stored in the leaves below node n, in left-to-right order
RECURSIVE StoredItems(_)
RECURSIVE StoredBelow(_, _)
StoredItems(n) ==
    IF nodes[n].is_leaf
    THEN nodes[n].data_entries
    ELSE StoredBelow(nodes[n].children, 1)

StoredBelow(children, i) ==
    IF i > Len(children)
    THEN <<>>
    ELSE StoredItems(children[i]) \o StoredBelow(children, i + 1)

\* the query of test.cpp that covers every box inserted
CoveringQuery == Rectangle(0, 0, 3, 3)

\* C18: after any sequence of inserts the multiset of items stored in the
\* leaves equals the multiset of items inserted, every node but the root is
\* the child of exactly one node at exactly one position, every split hands
\* out exactly what the node held, and a query covering every inserted box
\* returns each inserted item exactly once.
C18_ItemsPreserved ==
    /\ root_ # NULL => BagOfSeq(StoredItems(root_)) = BagOfSeq(inserted)
    /\ \A n \in NonRootNodes :
           Cardinality({p \in DOMAIN nodes :
                            /\ ~nodes[p].is_leaf
                            /\ \E i \in DOMAIN nodes[p].children :
                                   nodes[p].children[i] = n}) = 1
    /\ \A p \in DOMAIN nodes :
           \A i, j \in DOMAIN nodes[p].children :
               nodes[p].children[i] = nodes[p].children[j] => i = j
    /\ op.name \in {"insert", "throw"} =>
           \A i \in DOMAIN op.splits :
               op.splits[i].kept \o op.splits[i].moved = op.splits[i].before
    /\ (\A i \in DOMAIN inserted : Overlaps(inserted[i].bounds, CoveringQuery))
           => BagOfSeq(search(CoveringQuery)) = BagOfSeq(inserted)

\* a leaf and an internal node have both been split and the covering query
\* finds several copies of one item
C18_Witness ==
    /\ op.name = "insert"
    /\ Len(op.splits) >= 2
    /\ \A i \in DOMAIN inserted : Overlaps(inserted[i].bounds, CoveringQuery)
    /\ \E i, j \in DOMAIN inserted : i # j /\ inserted[i] = inserted[j]
    /\ Len(search(CoveringQuery)) = Len(inserted)

\* the union of two boxes: the minimal box enclosing those of the two that are
\* valid; holds of no valid box when neither is valid
IsUnionOf(r, a, b) ==
    IF {c \in {a, b} : ~is_invalid(c)} = {}
    THEN is_invalid(r)
    ELSE r = BoundingBox({c \in {a, b} : ~is_invalid(c)})

\* C19: whenever an insert splits the root, the tree afterwards has a new
\* internal root with exactly two children, the old root first and the node
\* split off it second, and the new root's mbr is the union of the two
\* children's mbr; in every other insert the root stays the same node.
C19_RootSplitMakesNewRoot ==
    op.name = "insert" =>
        IF \E i \in DOMAIN op.splits : op.splits[i].node = op.old_root
        THEN \E i \in DOMAIN op.splits :
                /\ op.splits[i].node = op.old_root
                /\ root_ = Len(nodes)
                /\ root_ # op.old_root
                /\ ~nodes[root_].is_leaf
                /\ nodes[root_].children = << op.old_root, op.splits[i].new_node >>
                /\ IsUnionOf(nodes[root_].mbr, nodes[op.old_root].mbr,
                             nodes[op.splits[i].new_node].mbr)
        ELSE root_ = op.old_root

\* C20: after every completed insert the root's parent is null and, for every
\* internal node n and every child c of n, c's parent is n.
C20_ParentBackReferences ==
    /\ root_ # NULL => nodes[root_].parent = NULL
    /\ \A n \in DOMAIN nodes :
           ~nodes[n].is_leaf =>
               \A i \in DOMAIN nodes[n].children :
                   nodes[nodes[n].children[i]].parent = n

\* the insert split an internal node, moving children to the new sibling, and
\* the split reached the root, which was replaced
C20_Witness ==
    /\ op.name = "insert"
    /\ root_ # op.old_root
    /\ \E i \in DOMAIN op.splits :
           /\ ~nodes[op.splits[i].node].is_leaf
           /\ Len(op.splits[i].moved) >= 1
           /\ \A j \in DOMAIN op.splits[i].moved :
                  nodes[op.splits[i].moved[j]].parent = op.splits[i].new_node

\* C21: no sequence of insert, search, search_with_population and empty calls
\* raises an error: choose_subtree never throws, because every internal node
\* has at least one non-null child.
C21_NoError ==
    /\ op.name # "throw"
    /\ \A n \in DOMAIN nodes :
           ~nodes[n].is_leaf =>
               \E i \in DOMAIN nodes[n].children : nodes[n].children[i] # NULL

\* an insert went through choose_subtree on two levels of internal nodes
C21_Witness ==
    /\ op.name = "insert"
    /\ Len(op.path) >= 3
    /\ \A i \in 1..(Len(op.path) - 1) : ~nodes[op.path[i].node].is_leaf

\* child c of the sequence children is a best choice for box b in arena ns:
\* its area_increase(b) is minimal, among the children of minimal increase its
\* mbr area is minimal, and it is the first child with both values
IsBestChild(ns, children, c, b) ==
    \E k \in DOMAIN children :
        /\ children[k] = c
        /\ \A j \in DOMAIN children :
               \/ area_increase(ns[c].mbr, b) < area_increase(ns[children[j]].mbr, b)
               \/ /\ area_increase(ns[c].mbr, b) = area_increase(ns[children[j]].mbr, b)
                  /\ area(ns[c].mbr) < area(ns[children[j]].mbr)
               \/ /\ area_increase(ns[c].mbr, b) = area_increase(ns[children[j]].mbr, b)
                  /\ area(ns[c].mbr) = area(ns[children[j]].mbr)
                  /\ k <= j

\* C22: choose_subtree(node, b) on a non-empty internal node returns a child
\* whose area_increase(b) is minimal among all children and, among those, one
\* whose mbr area is minimal, the first such child in storage order.  Each
\* node the insert visits below the root is the choice made at its parent,
\* judged on the children as they were when the insert began.
C22_ChoosesBestChild ==
    [][ op'.name = "insert" =>
          \A i \in 1..(Len(op'.path) - 1) :
              /\ ~nodes[op'.path[i].node].is_leaf
              /\ IsBestChild(nodes, nodes[op'.path[i].node].children,
                             op'.path[i + 1].node, op'.item.bounds) ]_vars

\* an insert that split nothing chose a child other than the first of a node
C22_Witness ==
    /\ op.name = "insert"
    /\ op.splits = <<>>
    /\ Len(op.path) >= 2
    /\ Len(nodes[op.path[1].node].children) >= 2
    /\ op.path[2].node # nodes[op.path[1].node].children[1]

\* C23: for the same tree and the same query Q, search_with_population(Q, t)
\* visits exactly the nodes search(Q) visits, in the same order, for every
\* threshold t; the threshold only filters items inside the visited leaves.
C23_SameNodesVisited ==
    op.name = "search_with_population" =>
        /\ search_with_population_visited(op.query_rect, op.min_population)
               = search_visited(op.query_rect)
        /\ op.results = SelectSeq(search(op.query_rect),
                            LAMBDA item : item.population >= op.min_population)

\* the threshold removed every item of some visited leaf of a tree of several
\* leaves, and items of another leaf were returned
C23_Witness ==
    /\ op.name = "search_with_population"
    /\ Len(search_visited(op.query_rect)) >= 3
    /\ \E i \in DOMAIN search_visited(op.query_rect) :
           /\ nodes[search_visited(op.query_rect)[i]].is_leaf
           /\ nodes[search_visited(op.query_rect)[i]].data_entries # <<>>
           /\ \A j \in DOMAIN nodes[search_visited(op.query_rect)[i]].data_entries :
                  nodes[search_visited(op.query_rect)[i]].data_entries[j].population
                      < op.min_population
    /\ Len(op.results) >= 1

\* C24: split_node is positional and order-preserving: the original keeps the
\* first split_index entries or children in their order, the new sibling
\* receives the remaining ones in their order, both sides are non-empty, and
\* the original's sequence followed by the sibling's equals the node's
\* sequence before the split.
C24_SplitPositional ==
    op.name \in {"insert", "throw"} =>
        \A i \in DOMAIN op.splits :
            /\ op.splits[i].kept
                   = SubSeq(op.splits[i].before, 1,
                            split_index_of(Len(op.splits[i].before)))
            /\ op.splits[i].moved
                   = SubSeq(op.splits[i].before,
                            split_index_of(Len(op.splits[i].before)) + 1,
                            Len(op.splits[i].before))
            /\ op.splits[i].kept # <<>>
            /\ op.splits[i].moved # <<>>
            /\ op.splits[i].kept \o op.splits[i].moved = op.splits[i].before

\* one insert split a leaf of distinct items and then the internal node above
C24_Witness ==
    /\ op.name = "insert"
    /\ Len(op.splits) >= 2
    /\ \E i \in DOMAIN op.splits :
           /\ nodes[op.splits[i].node].is_leaf
           /\ \E j, k \in DOMAIN op.splits[i].before :
                  op.splits[i].before[j] # op.splits[i].before[k]
    /\ \E i \in DOMAIN op.splits : ~nodes[op.splits[i].node].is_leaf

\* C25: a node is split in exactly the insert steps that bring its size to
\* max_entries_: every split happens at size max_entries_ exactly, after every
\* completed insert every node, the root included, holds at most
\* max_entries_ - 1 entries or children, and the root is a leaf exactly while
\* fewer than max_entries_ items have been inserted.
C25_SplitExactlyWhenFull ==
    /\ op.name \in {"insert", "throw"} =>
           \A i \in DOMAIN op.splits : Len(op.splits[i].before) = max_entries_
    /\ \A n \in DOMAIN nodes : size(nodes[n]) <= max_entries_ - 1
    /\ root_ # NULL => (nodes[root_].is_leaf <=> Len(inserted) < max_entries_)

\* one insert split a leaf and the internal node above it, and another node
\* is one short of max_entries_
C25_Witness ==
    /\ op.name = "insert"
    /\ Len(op.splits) >= 2
    /\ ~nodes[root_].is_leaf
    /\ \E n \in DOMAIN nodes : size(nodes[n]) = max_entries_ - 1

\* C26: a node with no contents has an invalid mbr (min > max on some axis):
\* the root of a freshly constructed tree, any newly created node before
\* update_mbr, and the result of update_mbr on an empty leaf or an empty
\* internal node.
C26_EmptyNodeInvalidMbr ==
    /\ \A n \in DOMAIN nodes : size(nodes[n]) = 0 => is_invalid(nodes[n].mbr)
    /\ \A leaf \in BOOLEAN :
           /\ is_invalid(RTreeNode(leaf).mbr)
           /\ is_invalid(update_mbr(<< RTreeNode(leaf) >>, 1)[1].mbr)

====
